---- MODULE Spec2Model ----
(***************************************************************************)
(* nRF52840 BLE LED controller.                                            *)
(*                                                                         *)
(* Two programs are modelled:                                              *)
(*   - the peripheral firmware (firmware/examples/src/bin/ble_led.rs):     *)
(*     the advertise -> connect -> serve -> disconnect loop of main, the   *)
(*     GATT event handler and the Leds driver;                             *)
(*   - the desktop controller (gui/nrf52840_led_gui/src/main.rs): the      *)
(*     GTK thread (buttons, event poller) and the BLE worker (ble_worker,  *)
(*     collect_devices), joined by the command and event channels.         *)
(*                                                                         *)
(* The radio stacks (nrf-softdevice, btleplug) are the environment: each   *)
(* fallible call of the code resolves nondeterministically to the          *)
(* outcomes the stack can produce.                                         *)
(***************************************************************************)
EXTENDS Integers, Sequences, FiniteSets, TLC

VARIABLES
    \* ---- peripheral firmware (device AA) ----
    fpc,        \* position of main: "advertising" | "serving" | "applied" | "run_returned"
    leds,       \* Leds: the level of the four active-low pins
    hmask,      \* `mask` of the LedMaskWrite handler in progress
    flink,      \* the central holding the peripheral's one link: "none" | "gui" | "central"
    evq,        \* GATT events the softdevice has raised and gatt_server::run has not dispatched
    cccd_led,   \* softdevice: notifications enabled on led_mask for this connection
    conn_mask,  \* softdevice: the last byte written to led_mask over this connection: <<>> or <<m>>
    gatt_mask,  \* softdevice: the stored value of the led_mask characteristic
    ntf_last,   \* the most recent led_mask_notify call: [m, ok, to]
    n_rx,       \* number of led_mask writes the softdevice has accepted
    n_apply,    \* number of apply_mask calls of the handler
    n_ntf,      \* number of led_mask_notify calls of the handler
    ops,        \* number of operations the generic central has performed
    \* ---- desktop controller ----
    cmdq,       \* command channel (cmd_tx -> rx)
    events,     \* event channel (ui_tx -> ui_rx)
    wpc,        \* position of ble_worker
    cur,        \* the command the worker is processing
    peri,       \* `peri` of the command in progress (address of the Peripheral handle)
    last_scan,  \* ble_worker: last_scan
    connected,  \* ble_worker: connected (address of the stored pair, or NoConn)
    hostlinks,  \* addresses the host stack holds an open link to
    emitted,    \* events the command in progress has emitted so far
    calls,      \* stack calls the command in progress has made: <<[fn, addr, ok], ...>>
    wrx,        \* deliveries of the write of the command in progress: <<byte, ...>>
    begun,      \* number of commands the worker has taken off the channel
    done,       \* number of commands the worker has finished
    ui_devices, \* build_ui: devices
    ui_connected, \* build_ui: connected
    ui_leds,    \* build_ui: led1..led4, is_active() of each toggle button
    sent,       \* number of commands the GTK thread has sent
    seen        \* the adapter: the peripherals adapter.peripherals() enumerates, in its order

fwvars == <<fpc, leds, hmask, flink, evq, cccd_led, conn_mask, gatt_mask, ntf_last,
            n_rx, n_apply, n_ntf>>
hostvars == <<cmdq, events, wpc, cur, peri, last_scan, connected, hostlinks,
              emitted, calls, wrx, begun, done, ui_devices, ui_connected, ui_leds, sent>>
vars == <<fpc, leds, hmask, flink, evq, cccd_led, conn_mask, gatt_mask, ntf_last,
          n_rx, n_apply, n_ntf, ops,
          cmdq, events, wpc, cur, peri, last_scan, connected, hostlinks,
          emitted, calls, wrx, begun, done, ui_devices, ui_connected, ui_leds, sent, seen>>

(***************************************************************************)
(* Bounds of the model.                                                    *)
(***************************************************************************)
\* commands the GTK thread sends in one run; an LED control is used while one
\* more command can follow it
MaxCmds == 5
\* operations the generic central performs in one run
MaxOps == 4
\* GATT events pending in the softdevice at one time
MaxEvq == 2

(***************************************************************************)
(* Firmware: Leds                                                          *)
(***************************************************************************)
Byte == 0..255

\* (mask & b) != 0 for a single-bit constant b
BitSet(mask, b) == (mask \div b) % 2 = 1

AllLeds == [led1 : {"High", "Low"}, led2 : {"High", "Low"},
            led3 : {"High", "Low"}, led4 : {"High", "Low"}]

\* Leds::new : every pin starts High (off)
LedsNew == [led1 |-> "High", led2 |-> "High", led3 |-> "High", led4 |-> "High"]

\* Leds::all_off
all_off(l) == [l EXCEPT !.led1 = "High", !.led2 = "High",
                        !.led3 = "High", !.led4 = "High"]

\* a handler that only ever switches LEDs on
apply_mask_only_on(l, mask) ==
    [l EXCEPT !.led1 = IF BitSet(mask, 1) THEN "Low" ELSE @,
              !.led2 = IF BitSet(mask, 2) THEN "Low" ELSE @,
              !.led3 = IF BitSet(mask, 4) THEN "Low" ELSE @,
              !.led4 = IF BitSet(mask, 8) THEN "Low" ELSE @]

\* Leds::apply_mask : active-low, LOW = on, HIGH = off
apply_mask(l, mask) ==
    [l EXCEPT !.led1 = IF BitSet(mask, 1) THEN "Low" ELSE "High",
              !.led2 = IF BitSet(mask, 2) THEN "Low" ELSE "High",
              !.led3 = IF BitSet(mask, 4) THEN "Low" ELSE "High",
              !.led4 = IF BitSet(mask, 8) THEN "Low" ELSE "High"]

\* the level of output i (LED i+1), i in 0..3
Pin(l, i) == CASE i = 0 -> l.led1 [] i = 1 -> l.led2
               [] i = 2 -> l.led3 [] i = 3 -> l.led4

\* output i is on: the board's LEDs are active-low
IsOn(l, i) == Pin(l, i) = "Low"

AllOff(l) == \A i \in 0..3 : ~IsOn(l, i)

Pow2(i) == CASE i = 0 -> 1 [] i = 1 -> 2 [] i = 2 -> 4 [] i = 3 -> 8
             [] i = 4 -> 16 [] i = 5 -> 32 [] i = 6 -> 64 [] i = 7 -> 128

\* bit i of m, by the arithmetic definition
Bit(m, i) == (m \div Pow2(i)) % 2

(***************************************************************************)
(* Firmware: the softdevice as the handler sees it                         *)
(***************************************************************************)
GattEvent(k, m, on) == [m |-> m, k |-> k, on |-> on]

NoNotify == [m |-> 0, ok |-> FALSE, to |-> "none"]

\* the softdevice accepts a write of one byte to led_mask: it stores the value
\* and raises LedMaskWrite
SdWrite(m) ==
    /\ flink # "none"
    /\ Len(evq) < MaxEvq
    /\ gatt_mask' = m
    /\ conn_mask' = <<m>>
    /\ evq' = Append(evq, GattEvent("LedMaskWrite", m, FALSE))
    /\ n_rx' = n_rx + 1

\* the link ends (the central closed it, or it was lost): the softdevice raises
\* the disconnect that makes gatt_server::run return
SdDisconnected ==
    /\ flink # "none"
    /\ flink' = "none"
    /\ evq' = Append(evq, GattEvent("Disconnected", 0, FALSE))

\* sd_ble_gatts_hvx succeeds only on a live link whose client has subscribed
NotifyOk == flink # "none" /\ cccd_led

(***************************************************************************)
(* Firmware: main                                                          *)
(***************************************************************************)
\* advertise_connectable returns a connection to central c
AdvertiseConnected(c) ==
    /\ fpc = "advertising"
    /\ fpc' = "serving"
    /\ flink' = c
    /\ cccd_led' = FALSE
    /\ conn_mask' = <<>>
    /\ evq' = <<>>

\* a handler that goes on to notify without having driven the outputs
LedMaskWriteSkipsApply ==
    /\ fpc = "serving"
    /\ evq # <<>>
    /\ Head(evq).k = "LedMaskWrite"
    /\ evq' = Tail(evq)
    /\ hmask' = Head(evq).m
    /\ leds' = leds
    /\ n_apply' = n_apply + 1
    /\ fpc' = "applied"
    /\ UNCHANGED <<flink, cccd_led, conn_mask, gatt_mask, ntf_last, n_rx, n_ntf>>

\* a handler that adds the LEDs of each mask to those already on
LedMaskWriteAccumulates ==
    /\ fpc = "serving"
    /\ evq # <<>>
    /\ Head(evq).k = "LedMaskWrite"
    /\ evq' = Tail(evq)
    /\ hmask' = Head(evq).m
    /\ leds' = apply_mask_only_on(leds, Head(evq).m)
    /\ n_apply' = n_apply + 1
    /\ fpc' = "applied"
    /\ UNCHANGED <<flink, cccd_led, conn_mask, gatt_mask, ntf_last, n_rx, n_ntf>>

\* LedServiceEvent::LedMaskWrite(mask), first half: leds.apply_mask(mask)
LedMaskWriteApply ==
    /\ fpc = "serving"
    /\ evq # <<>>
    /\ Head(evq).k = "LedMaskWrite"
    /\ evq' = Tail(evq)
    /\ hmask' = Head(evq).m
    /\ leds' = apply_mask(leds, Head(evq).m)
    /\ n_apply' = n_apply + 1
    /\ fpc' = "applied"
    /\ UNCHANGED <<flink, cccd_led, conn_mask, gatt_mask, ntf_last, n_rx, n_ntf>>

\* a handler that switches the outputs off when the notify fails
LedMaskWriteNotifyResets ==
    /\ fpc = "applied"
    /\ ntf_last' = [m |-> hmask, ok |-> NotifyOk, to |-> flink]
    /\ n_ntf' = n_ntf + 1
    /\ fpc' = "serving"
    /\ leds' = IF NotifyOk THEN leds ELSE all_off(leds)
    /\ UNCHANGED <<hmask, flink, evq, cccd_led, conn_mask, gatt_mask, n_rx, n_apply>>

\* LedServiceEvent::LedMaskWrite(mask), second half: server.led.led_mask_notify;
\* an Err is logged and dropped
LedMaskWriteNotify ==
    /\ fpc = "applied"
    /\ ntf_last' = [m |-> hmask, ok |-> NotifyOk, to |-> flink]
    /\ n_ntf' = n_ntf + 1
    /\ fpc' = "serving"
    /\ UNCHANGED <<leds, hmask, flink, evq, cccd_led, conn_mask, gatt_mask, n_rx, n_apply>>

\* a handler that answers a subscription by notifying the stored mask
LedMaskCccdWriteNotifies ==
    /\ fpc = "serving"
    /\ evq # <<>>
    /\ Head(evq).k = "LedMaskCccdWrite"
    /\ evq' = Tail(evq)
    /\ ntf_last' = [m |-> gatt_mask, ok |-> NotifyOk, to |-> flink]
    /\ n_ntf' = n_ntf + 1
    /\ UNCHANGED <<fpc, leds, hmask, flink, cccd_led, conn_mask, gatt_mask, n_rx, n_apply>>

\* LedServiceEvent::LedMaskCccdWrite { notifications }: info! only
LedMaskCccdWrite ==
    /\ fpc = "serving"
    /\ evq # <<>>
    /\ Head(evq).k = "LedMaskCccdWrite"
    /\ evq' = Tail(evq)
    /\ UNCHANGED <<fpc, leds, hmask, flink, cccd_led, conn_mask, gatt_mask, ntf_last,
                   n_rx, n_apply, n_ntf>>

\* BatteryServiceEvent::BatteryLevelCccdWrite { notifications }: info! only
BatteryLevelCccdWrite ==
    /\ fpc = "serving"
    /\ evq # <<>>
    /\ Head(evq).k = "BatteryLevelCccdWrite"
    /\ evq' = Tail(evq)
    /\ UNCHANGED <<fpc, leds, hmask, flink, cccd_led, conn_mask, gatt_mask, ntf_last,
                   n_rx, n_apply, n_ntf>>

\* gatt_server::run returns on the disconnect
RunReturns ==
    /\ fpc = "serving"
    /\ evq # <<>>
    /\ Head(evq).k = "Disconnected"
    /\ evq' = Tail(evq)
    /\ fpc' = "run_returned"
    /\ UNCHANGED <<leds, hmask, flink, cccd_led, conn_mask, gatt_mask, ntf_last,
                   n_rx, n_apply, n_ntf>>

\* a loop that goes back to advertising without touching the outputs
LoopKeepsLeds(l) == l

\* what main does to the outputs once run has returned
AfterDisconnect(l) == all_off(l)

\* a main that returns after the first connection
DisconnectedHalts ==
    /\ fpc = "run_returned"
    /\ leds' = all_off(leds)
    /\ fpc' = "halted"
    /\ UNCHANGED <<hmask, flink, evq, cccd_led, conn_mask, gatt_mask, ntf_last,
                   n_rx, n_apply, n_ntf>>

\* info!("disconnected"); leds.all_off(); and round the loop to advertise again
DisconnectedAllOff ==
    /\ fpc = "run_returned"
    /\ leds' = AfterDisconnect(leds)
    /\ fpc' = "advertising"
    /\ UNCHANGED <<hmask, flink, evq, cccd_led, conn_mask, gatt_mask, ntf_last,
                   n_rx, n_apply, n_ntf>>

FwInit ==
    /\ fpc = "advertising"
    /\ leds = all_off(LedsNew)
    /\ hmask = 0
    /\ flink = "none"
    /\ evq = <<>>
    /\ cccd_led = FALSE
    /\ conn_mask = <<>>
    /\ gatt_mask = 0
    /\ ntf_last = NoNotify
    /\ n_rx = 0
    /\ n_apply = 0
    /\ n_ntf = 0

(***************************************************************************)
(* Desktop controller: values                                              *)
(***************************************************************************)
NoConn == "None"

NoCmd == [m |-> 0, op |-> "None", addr |-> ""]

Cmd(op, addr, m) == [m |-> m, op |-> op, addr |-> addr]

\* Option<T> as a sequence of at most one element
None == <<>>
Some(x) == <<x>>
is_some(o) == o # <<>>
unwrap_or(o, d) == IF o = <<>> THEN d ELSE o[1]

\* UiMsg
Log(text) == [text |-> text, t |-> "Log", list |-> <<>>, flag |-> FALSE]
ScanResults(list) == [text |-> "", t |-> "ScanResults", list |-> list, flag |-> FALSE]
Connected(b) == [text |-> "", t |-> "Connected", list |-> <<>>, flag |-> b]

\* {m:02x}
HexDigit(n) ==
    <<"0", "1", "2", "3", "4", "5", "6", "7", "8", "9", "a", "b", "c", "d", "e", "f">>[n + 1]
Hex2(m) == HexDigit(m \div 16) \o HexDigit(m % 16)

\* the devices in radio range
\*   AA  the board running this firmware (modelled in full)
\*   BB  a second board offering the LED characteristic
\*   CC  a device without the LED characteristic
Addrs == {"AA", "BB", "CC"}

\* the characteristics discover_services finds include LED_CHAR_UUID
HasLedChar(a) == a \in {"AA", "BB"}

\* the characteristic found advertises WRITE or WRITE_WITHOUT_RESPONSE
HasWriteProp(a) == a \in {"AA", "BB"}

\* what adapter.peripherals() and p.properties() report of a device
Seen(a) ==
    CASE a = "AA" -> [addr |-> "AA",
                      props |-> Some([local_name |-> Some("HelloRust"), rssi |-> Some(-40)])]
      [] a = "BB" -> [addr |-> "BB",
                      props |-> Some([local_name |-> Some("HelloRust"), rssi |-> Some(-60)])]
      [] a = "CC" -> [addr |-> "CC",
                      props |-> Some([local_name |-> None, rssi |-> Some(-30)])]

\* the enumerations a scan of the main specification can meet
ScanEnums ==
    { <<Seen("AA")>>,
      <<Seen("BB"), Seen("CC"), Seen("AA")>> }

(***************************************************************************)
(* Desktop controller: collect_devices                                     *)
(***************************************************************************)
DefaultRssi == -999

\* DeviceInfo of one enumerated peripheral
DeviceInfo(p) ==
    [addr |-> p.addr,
     rssi |-> IF is_some(p.props) THEN p.props[1].rssi ELSE None,
     name |-> IF is_some(p.props) THEN p.props[1].local_name ELSE None]

\* Ord::cmp on bool and on i16
CmpBool(x, y) == IF x = y THEN "Equal" ELSE IF y THEN "Less" ELSE "Greater"
CmpInt(x, y) == IF x = y THEN "Equal" ELSE IF x < y THEN "Less" ELSE "Greater"

\* a closure that orders by name only
SortCmpNameOnly(a, b) == CmpBool(is_some(b.name), is_some(a.name))

\* the closure given to sort_by
SortCmp(a, b) ==
    LET an == is_some(a.name)
        bn == is_some(b.name)
        c1 == CmpBool(bn, an)
    IN  IF c1 # "Equal" THEN c1
        ELSE CmpInt(unwrap_or(b.rssi, DefaultRssi), unwrap_or(a.rssi, DefaultRssi))

\* x placed after every element it does not precede (a stable insertion)
RECURSIVE InsertStable(_, _)
InsertStable(x, sorted) ==
    IF sorted = <<>> THEN <<x>>
    ELSE IF SortCmp(x, Head(sorted)) = "Less" THEN <<x>> \o sorted
    ELSE <<Head(sorted)>> \o InsertStable(x, Tail(sorted))

\* slice::sort_by : a stable sort
RECURSIVE SortBy(_)
SortBy(list) ==
    IF list = <<>> THEN <<>>
    ELSE InsertStable(list[Len(list)], SortBy(SubSeq(list, 1, Len(list) - 1)))

\* collect_devices, on the enumeration the adapter returns: the sorted infos
\* (the Peripheral handle of an entry is its address)
collect_devices(peris) ==
    SortBy([i \in 1..Len(peris) |-> DeviceInfo(peris[i])])

HostInit ==
    /\ cmdq = <<>>
    /\ events = <<>>
    /\ wpc = "init"
    /\ cur = NoCmd
    /\ peri = ""
    /\ last_scan = <<>>
    /\ connected = NoConn
    /\ hostlinks = {}
    /\ emitted = <<>>
    /\ calls = <<>>
    /\ wrx = <<>>
    /\ begun = 0
    /\ done = 0
    /\ ui_devices = <<>>
    /\ ui_connected = FALSE
    /\ ui_leds = <<FALSE, FALSE, FALSE, FALSE>>
    /\ sent = 0
    /\ seen = <<>>

(***************************************************************************)
(* Desktop controller: ble_worker                                          *)
(***************************************************************************)
uivars == <<ui_devices, ui_connected, ui_leds, sent>>

Call(fn, a, ok) == [ok |-> ok, addr |-> a, fn |-> fn]

\* a lookup that accepts any address
InLastScanAny(a) == TRUE

InLastScan(a) == \E i \in 1..Len(last_scan) : last_scan[i].addr = a

\* Manager::new, manager.adapters, the first adapter: the worker reaches its loop
WorkerStart ==
    /\ wpc = "init"
    /\ wpc' = "recv"
    /\ events' = Append(events, Log("BLE worker started."))
    /\ UNCHANGED <<cmdq, cur, peri, last_scan, connected, hostlinks, emitted, calls,
                   wrx, begun, done>>
    /\ UNCHANGED uivars /\ UNCHANGED fwvars /\ UNCHANGED <<ops, seen>>

\* a worker thread that tells the UI that ble_worker has returned
ExitAnnounced == <<Connected(FALSE)>>

\* what the worker thread sends to the UI when ble_worker has returned Err: it
\* prints the error to stderr and sends nothing
ExitEvents == <<>>

\* Manager::new or manager.adapters fails, or there is no adapter: ble_worker
\* returns Err before its loop
WorkerStartFails ==
    /\ wpc = "init"
    /\ wpc' = "exited"
    /\ events' = events \o ExitEvents
    /\ UNCHANGED <<cmdq, cur, peri, last_scan, connected, hostlinks, emitted,
                   calls, wrx, begun, done>>
    /\ UNCHANGED uivars /\ UNCHANGED fwvars /\ UNCHANGED <<ops, seen>>

\* a worker that takes the next command whatever it is doing
TakesWhileBusy == wpc \notin {"init", "exited"}

\* the worker is at rx.recv().await, the one place it takes a command
AtRecv == wpc = "recv"

\* rx.recv() yields the command at the head of the channel
Take(op) ==
    /\ AtRecv
    /\ cmdq # <<>>
    /\ Head(cmdq).op = op
    /\ cmdq' = Tail(cmdq)
    /\ cur' = Head(cmdq)
    /\ begun' = begun + 1
    /\ calls' = <<>>
    /\ wrx' = <<>>

\* the command in progress emits es and goes on to position pc
Emit(es) ==
    /\ events' = events \o es
    /\ emitted' = emitted \o es

\* the command in progress is finished: back to rx.recv()
Finish ==
    /\ wpc' = "recv"
    /\ done' = done + 1

\* an operation fails with `?`: ble_worker returns Err and the thread ends
Exit(fn) ==
    /\ wpc' = "exited"
    /\ calls' = Append(calls, Call(fn, peri, FALSE))
    /\ events' = events \o ExitEvents
    /\ UNCHANGED <<cmdq, cur, peri, last_scan, connected, hostlinks, emitted,
                   wrx, begun, done>>
    /\ UNCHANGED uivars /\ UNCHANGED fwvars /\ UNCHANGED <<ops, seen>>

\* ---- Cmd::Scan ----
RecvScan ==
    /\ Take("Scan")
    /\ events' = Append(events, Log("Scanning (5s)..."))
    /\ emitted' = <<Log("Scanning (5s)...")>>
    /\ peri' = ""
    /\ wpc' = "start_scan"
    /\ UNCHANGED <<last_scan, connected, hostlinks, done>>
    /\ UNCHANGED uivars /\ UNCHANGED fwvars /\ UNCHANGED <<ops, seen>>

\* adapter.start_scan succeeds; the worker sleeps its 5 s
StartScanOk ==
    /\ wpc = "start_scan"
    /\ wpc' = "dwell"
    /\ calls' = Append(calls, Call("start_scan", "", TRUE))
    /\ UNCHANGED <<cmdq, events, cur, peri, last_scan, connected, hostlinks, emitted,
                   wrx, begun, done>>
    /\ UNCHANGED uivars /\ UNCHANGED fwvars /\ UNCHANGED <<ops, seen>>

StartScanFails == wpc = "start_scan" /\ Exit("start_scan")

\* a worker that also sends the device count as a Log event
ScanEventsWithCount(infos) ==
    <<ScanResults(infos), Log("Scan results: " \o ToString(Len(infos)) \o " device(s)")>>

\* what the Scan arm sends once collect_devices has returned
ScanEvents(infos) == <<ScanResults(infos)>>

\* collect_devices on an enumeration of S, last_scan replaced, ScanResults sent
ScanCollectFrom(S) ==
    /\ wpc = "dwell"
    /\ \E peris \in S :
          LET infos == collect_devices(peris)
          IN  /\ seen' = peris
              /\ last_scan' = infos
              /\ Emit(ScanEvents(infos))
    /\ calls' = Append(calls, Call("peripherals", "", TRUE))
    /\ Finish
    /\ UNCHANGED <<cmdq, cur, peri, connected, hostlinks, wrx, begun>>
    /\ UNCHANGED uivars /\ UNCHANGED fwvars /\ UNCHANGED ops

\* the scan of the main specification
ScanCollect == ScanCollectFrom(ScanEnums)

\* adapter.peripherals fails inside collect_devices
ScanCollectFails == wpc = "dwell" /\ Exit("peripherals")

\* ---- Cmd::Connect ----
RecvConnect ==
    /\ Take("Connect")
    /\ LET a == Head(cmdq).addr
           req == Log("Connect requested: " \o a)
       IN  IF InLastScan(a)
           THEN /\ events' = Append(events, req)
                /\ emitted' = <<req>>
                /\ peri' = a
                /\ wpc' = "connect"
                /\ UNCHANGED done
           ELSE /\ events' = events \o <<req, Log("That device wasn't in the last scan list.")>>
                /\ emitted' = <<req, Log("That device wasn't in the last scan list.")>>
                /\ peri' = ""
                /\ Finish
    /\ UNCHANGED <<last_scan, connected, hostlinks>>
    /\ UNCHANGED uivars /\ UNCHANGED fwvars /\ UNCHANGED <<ops, seen>>

\* peri.connect() succeeds: the link to peri is open (the board accepts it when
\* it is advertising)
ConnectOk ==
    /\ wpc = "connect"
    /\ IF peri = "AA" /\ "AA" \notin hostlinks
       THEN /\ AdvertiseConnected("gui")
            /\ UNCHANGED <<leds, hmask, gatt_mask, ntf_last, n_rx, n_apply, n_ntf>>
       ELSE UNCHANGED fwvars
    /\ hostlinks' = hostlinks \cup {peri}
    /\ calls' = Append(calls, Call("connect", peri, TRUE))
    /\ wpc' = "discover"
    /\ UNCHANGED <<cmdq, events, cur, peri, last_scan, connected, emitted, wrx, begun, done>>
    /\ UNCHANGED uivars /\ UNCHANGED <<ops, seen>>

ConnectFails == wpc = "connect" /\ Exit("connect")

\* a lookup that finds the LED characteristic on every device
FindsLedCharAnywhere(a) == TRUE

\* chars.into_iter().find(|c| c.uuid == led_uuid) is Some
LedCharFound(a) == HasLedChar(a)

\* discover_services succeeds; the LED characteristic is looked up
DiscoverOk ==
    /\ wpc = "discover"
    /\ peri \in hostlinks
    /\ calls' = Append(calls, Call("discover_services", peri, TRUE))
    /\ IF LedCharFound(peri)
       THEN LET warn == IF HasWriteProp(peri) THEN <<>>
                        ELSE <<Log("Warning: LED characteristic doesn't advertise WRITE; attempting anyway.")>>
            IN  /\ connected' = peri
                /\ Emit(warn \o <<Connected(TRUE)>>)
                /\ Finish
       ELSE /\ Emit(<<Log("LED characteristic not found on device.")>>)
            /\ wpc' = "abort_disconnect"
            /\ UNCHANGED <<connected, done>>
    /\ UNCHANGED <<cmdq, cur, peri, last_scan, hostlinks, wrx, begun>>
    /\ UNCHANGED uivars /\ UNCHANGED fwvars /\ UNCHANGED <<ops, seen>>

DiscoverFails == wpc = "discover" /\ Exit("discover_services")

\* peri.disconnect().await.ok() : when it succeeds the link to a is closed; an
\* Err is dropped and the link stays as it was
Disconnect(a, ok) ==
    /\ calls' = Append(calls, Call("disconnect", a, ok))
    /\ IF ok
       THEN /\ hostlinks' = hostlinks \ {a}
            /\ IF a = "AA" /\ flink = "gui"
               THEN /\ SdDisconnected
                    /\ UNCHANGED <<fpc, leds, hmask, cccd_led, conn_mask, gatt_mask, ntf_last,
                                   n_rx, n_apply, n_ntf>>
               ELSE UNCHANGED fwvars
       ELSE UNCHANGED hostlinks /\ UNCHANGED fwvars

\* the LED characteristic was not found: disconnect, Connected(false), continue
AbortDisconnect ==
    /\ wpc = "abort_disconnect"
    /\ \E ok \in BOOLEAN : Disconnect(peri, ok)
    /\ Emit(<<Connected(FALSE)>>)
    /\ Finish
    /\ UNCHANGED <<cmdq, cur, peri, last_scan, connected, wrx, begun>>
    /\ UNCHANGED uivars /\ UNCHANGED <<ops, seen>>

\* ---- Cmd::Disconnect ----
\* a Disconnect that reads the stored pair and leaves it in place
TakeLeavesPair == connected

\* what connected.take() leaves in `connected`
AfterTake == NoConn

RecvDisconnect ==
    /\ Take("Disconnect")
    /\ IF connected # NoConn
       THEN /\ connected' = AfterTake
            /\ peri' = connected
            /\ events' = Append(events, Log("Disconnecting..."))
            /\ emitted' = <<Log("Disconnecting...")>>
            /\ wpc' = "disconnect"
            /\ UNCHANGED done
       ELSE /\ events' = Append(events, Connected(FALSE))
            /\ emitted' = <<Connected(FALSE)>>
            /\ peri' = ""
            /\ Finish
            /\ UNCHANGED connected
    /\ UNCHANGED <<last_scan, hostlinks>>
    /\ UNCHANGED uivars /\ UNCHANGED fwvars /\ UNCHANGED <<ops, seen>>

\* peri.disconnect().await.ok(), then Connected(false)
DisconnectClose ==
    /\ wpc = "disconnect"
    /\ \E ok \in BOOLEAN : Disconnect(peri, ok)
    /\ Emit(<<Connected(FALSE)>>)
    /\ Finish
    /\ UNCHANGED <<cmdq, cur, peri, last_scan, connected, wrx, begun>>
    /\ UNCHANGED uivars /\ UNCHANGED <<ops, seen>>

\* ---- Cmd::SetMask ----
\* a worker that puts a mask it cannot write back on the channel
RecvSetMaskRequeues ==
    /\ AtRecv
    /\ cmdq # <<>>
    /\ Head(cmdq).op = "SetMask"
    /\ cur' = Head(cmdq)
    /\ begun' = begun + 1
    /\ calls' = <<>>
    /\ wrx' = <<>>
    /\ IF connected # NoConn
       THEN /\ cmdq' = Tail(cmdq)
            /\ peri' = connected
            /\ wpc' = "write"
            /\ emitted' = <<>>
            /\ UNCHANGED <<events, done>>
       ELSE /\ cmdq' = Append(Tail(cmdq), Head(cmdq))
            /\ events' = Append(events, Log("Not connected; ignoring LED write."))
            /\ emitted' = <<Log("Not connected; ignoring LED write.")>>
            /\ peri' = ""
            /\ Finish
    /\ UNCHANGED <<last_scan, connected, hostlinks>>
    /\ UNCHANGED uivars /\ UNCHANGED fwvars /\ UNCHANGED <<ops, seen>>

RecvSetMask ==
    /\ Take("SetMask")
    /\ IF connected # NoConn
       THEN /\ peri' = connected
            /\ wpc' = "write"
            /\ emitted' = <<>>
            /\ UNCHANGED <<events, done>>
       ELSE /\ events' = Append(events, Log("Not connected; ignoring LED write."))
            /\ emitted' = <<Log("Not connected; ignoring LED write.")>>
            /\ peri' = ""
            /\ Finish
    /\ UNCHANGED <<last_scan, connected, hostlinks>>
    /\ UNCHANGED uivars /\ UNCHANGED fwvars /\ UNCHANGED <<ops, seen>>

\* a write that sends the mask twice over
WriteDataTwice(m) == <<m, m>>

\* the data of peri.write: let data = [m]
WriteData(m) == <<m>>

\* the write request [m] reaches the peripheral over the open link
WriteDeliver ==
    /\ wpc = "write"
    /\ peri \in hostlinks
    /\ IF peri = "AA"
       THEN /\ SdWrite(WriteData(cur.m)[1])
            /\ UNCHANGED <<fpc, leds, hmask, flink, cccd_led, ntf_last, n_apply, n_ntf>>
       ELSE UNCHANGED fwvars
    /\ wrx' = wrx \o WriteData(cur.m)
    /\ wpc' = "write_sent"
    /\ UNCHANGED <<cmdq, events, cur, peri, last_scan, connected, hostlinks, emitted,
                   calls, begun, done>>
    /\ UNCHANGED uivars /\ UNCHANGED <<ops, seen>>

\* the write response arrives: Ok
WriteOk ==
    /\ wpc = "write_sent"
    /\ peri \in hostlinks
    /\ calls' = Append(calls, Call("write", peri, TRUE))
    /\ Emit(<<Log("Wrote LED mask: 0x" \o Hex2(cur.m))>>)
    /\ Finish
    /\ UNCHANGED <<cmdq, cur, peri, last_scan, connected, hostlinks, wrx, begun>>
    /\ UNCHANGED uivars /\ UNCHANGED fwvars /\ UNCHANGED <<ops, seen>>

\* the Debug text of the errors peri.write returns: the link is not open (any
\* more), or the stack fails the request on an open link
WriteErrors == {"NotConnected", "Other(\"stack\")"}

\* peri.write returns Err(e), before or after the request went out, with the
\* link open or not: the Err arm logs it and the loop goes on
WriteFails ==
    /\ wpc \in {"write", "write_sent"}
    /\ \E e \in WriteErrors :
          /\ e = "NotConnected" => peri \notin hostlinks
          /\ Emit(<<Log("Write failed: " \o e)>>)
    /\ calls' = Append(calls, Call("write", peri, FALSE))
    /\ Finish
    /\ UNCHANGED <<cmdq, cur, peri, last_scan, connected, hostlinks, wrx, begun>>
    /\ UNCHANGED uivars /\ UNCHANGED fwvars /\ UNCHANGED <<ops, seen>>

\* the link to a is lost (range, power, supervision timeout)
LinkLost ==
    /\ \E a \in hostlinks :
          /\ hostlinks' = hostlinks \ {a}
          /\ IF a = "AA" /\ flink = "gui"
             THEN /\ SdDisconnected
                  /\ UNCHANGED <<fpc, leds, hmask, cccd_led, conn_mask, gatt_mask, ntf_last,
                                 n_rx, n_apply, n_ntf>>
             ELSE UNCHANGED fwvars
    /\ UNCHANGED <<cmdq, events, wpc, cur, peri, last_scan, connected, emitted, calls,
                   wrx, begun, done>>
    /\ UNCHANGED uivars /\ UNCHANGED <<ops, seen>>

(***************************************************************************)
(* Desktop controller: build_ui (the GTK thread)                           *)
(***************************************************************************)
\* cmd_tx.send of each command of cs in turn: queued while the worker holds
\* rx; an Err, dropped by `let _ =`, once the worker has returned
SendAll(cs) ==
    /\ sent < MaxCmds
    /\ sent' = sent + Len(cs)
    /\ cmdq' = IF wpc = "exited" THEN cmdq ELSE cmdq \o cs
    /\ UNCHANGED <<events, wpc, cur, peri, last_scan, connected, hostlinks, emitted,
                   calls, wrx, begun, done, ui_devices, ui_connected>>
    /\ UNCHANGED fwvars /\ UNCHANGED <<ops, seen>>

\* a click handler that sends c and leaves the toggle buttons alone
Send(c) == SendAll(<<c>>) /\ UNCHANGED ui_leds

\* scan_btn clicked
ClickScan == Send(Cmd("Scan", "", 0))

\* connect_btn clicked with a row of the device list selected
ClickConnect ==
    \E idx \in 1..Len(ui_devices) : Send(Cmd("Connect", ui_devices[idx].addr, 0))

\* disconnect_btn clicked
ClickDisconnect == Send(Cmd("Disconnect", "", 0))

\* the send_mask closure: the mask of the toggle buttons that are active
send_mask(t) ==
    (IF t[1] THEN 1 ELSE 0) + (IF t[2] THEN 2 ELSE 0)
  + (IF t[3] THEN 4 ELSE 0) + (IF t[4] THEN 8 ELSE 0)

\* led<i>.set_active(v) for i = from..4 in turn: a button whose state changes
\* emits `toggled`, and its handler sends the mask of the buttons as they
\* then are; a button already in state v emits nothing
RECURSIVE set_active_from(_, _, _)
set_active_from(t, i, v) ==
    IF i > 4 THEN <<>>
    ELSE IF t[i] = v THEN set_active_from(t, i + 1, v)
    ELSE LET u == [t EXCEPT ![i] = v]
         IN  <<Cmd("SetMask", "", send_mask(u))>> \o set_active_from(u, i + 1, v)

\* one of the four toggle buttons clicked: it flips, `toggled` runs send_mask.
\* The LED controls are sensitive only while connected is set
ClickToggle ==
    /\ ui_connected
    /\ sent + 1 < MaxCmds
    /\ \E i \in 1..4 :
          /\ ui_leds' = [ui_leds EXCEPT ![i] = ~ui_leds[i]]
          /\ SendAll(<<Cmd("SetMask", "", send_mask(ui_leds'))>>)

\* all_on clicked: set_active(true) on led1..led4, then SetMask(0x0f)
ClickAllOn ==
    /\ ui_connected
    /\ sent + 1 < MaxCmds
    /\ ui_leds' = <<TRUE, TRUE, TRUE, TRUE>>
    /\ SendAll(set_active_from(ui_leds, 1, TRUE) \o <<Cmd("SetMask", "", 15)>>)

\* all_off clicked: set_active(false) on led1..led4, then SetMask(0x00)
ClickAllOff ==
    /\ ui_connected
    /\ sent + 1 < MaxCmds
    /\ ui_leds' = <<FALSE, FALSE, FALSE, FALSE>>
    /\ SendAll(set_active_from(ui_leds, 1, FALSE) \o <<Cmd("SetMask", "", 0)>>)

\* the devices and the connected flag after the poller has applied msgs
RECURSIVE PollDevices(_, _)
PollDevices(msgs, d) ==
    IF msgs = <<>> THEN d
    ELSE PollDevices(Tail(msgs), IF Head(msgs).t = "ScanResults" THEN Head(msgs).list ELSE d)

RECURSIVE PollConnected(_, _)
PollConnected(msgs, c) ==
    IF msgs = <<>> THEN c
    ELSE PollConnected(Tail(msgs), IF Head(msgs).t = "Connected" THEN Head(msgs).flag ELSE c)

\* the 50 ms poller: while let Ok(msg) = ui_rx.try_recv()
UiPoll ==
    /\ events # <<>>
    /\ ui_devices' = PollDevices(events, ui_devices)
    /\ ui_connected' = PollConnected(events, ui_connected)
    /\ events' = <<>>
    /\ UNCHANGED <<cmdq, wpc, cur, peri, last_scan, connected, hostlinks, emitted, calls,
                   wrx, begun, done, ui_leds, sent>>
    /\ UNCHANGED fwvars /\ UNCHANGED <<ops, seen>>

(***************************************************************************)
(* The whole system: GTK thread, worker, radio link and firmware           *)
(***************************************************************************)
Init == FwInit /\ HostInit /\ ops = 0

Next ==
    \/ WorkerStart
    \/ WorkerStartFails
    \/ RecvScan
    \/ StartScanOk
    \/ StartScanFails
    \/ ScanCollect
    \/ ScanCollectFails
    \/ RecvConnect
    \/ ConnectOk
    \/ ConnectFails
    \/ DiscoverOk
    \/ DiscoverFails
    \/ AbortDisconnect
    \/ RecvDisconnect
    \/ DisconnectClose
    \/ RecvSetMask
    \/ WriteDeliver
    \/ WriteOk
    \/ WriteFails
    \/ LinkLost
    \/ ClickScan
    \/ ClickConnect
    \/ ClickDisconnect
    \/ ClickToggle
    \/ ClickAllOn
    \/ ClickAllOff
    \/ UiPoll
    \/ LedMaskWriteApply /\ UNCHANGED hostvars /\ UNCHANGED <<ops, seen>>
    \/ LedMaskWriteNotify /\ UNCHANGED hostvars /\ UNCHANGED <<ops, seen>>
    \/ RunReturns /\ UNCHANGED hostvars /\ UNCHANGED <<ops, seen>>
    \/ DisconnectedAllOff /\ UNCHANGED hostvars /\ UNCHANGED <<ops, seen>>

Spec == Init /\ [][Next]_vars

(***************************************************************************)
(* The firmware served by an arbitrary central (a phone, a test tool): it  *)
(* connects, writes any byte, writes either CCCD, disconnects, or the link *)
(* is lost.                                                                *)
(***************************************************************************)
CentralBytes == {0, 5, 10, 21, 255}

CentralConnect ==
    /\ ops < MaxOps
    /\ AdvertiseConnected("central")
    /\ ops' = ops + 1
    /\ UNCHANGED <<leds, hmask, gatt_mask, ntf_last, n_rx, n_apply, n_ntf>>
    /\ UNCHANGED hostvars /\ UNCHANGED seen

CentralWrite ==
    /\ ops < MaxOps
    /\ flink = "central"
    /\ \E m \in CentralBytes : SdWrite(m)
    /\ ops' = ops + 1
    /\ UNCHANGED <<fpc, leds, hmask, flink, cccd_led, ntf_last, n_apply, n_ntf>>
    /\ UNCHANGED hostvars /\ UNCHANGED seen

CentralWriteLedCccd ==
    /\ ops < MaxOps
    /\ flink = "central"
    /\ Len(evq) < MaxEvq
    /\ \E on \in BOOLEAN :
          /\ cccd_led' = on
          /\ evq' = Append(evq, GattEvent("LedMaskCccdWrite", 0, on))
    /\ ops' = ops + 1
    /\ UNCHANGED <<fpc, leds, hmask, flink, conn_mask, gatt_mask, ntf_last,
                   n_rx, n_apply, n_ntf>>
    /\ UNCHANGED hostvars /\ UNCHANGED seen

CentralWriteBatteryCccd ==
    /\ ops < MaxOps
    /\ flink = "central"
    /\ Len(evq) < MaxEvq
    /\ \E on \in BOOLEAN :
          evq' = Append(evq, GattEvent("BatteryLevelCccdWrite", 0, on))
    /\ ops' = ops + 1
    /\ UNCHANGED <<fpc, leds, hmask, flink, cccd_led, conn_mask, gatt_mask, ntf_last,
                   n_rx, n_apply, n_ntf>>
    /\ UNCHANGED hostvars /\ UNCHANGED seen

\* the central closes the link, or the link is lost
CentralDisconnect ==
    /\ flink = "central"
    /\ SdDisconnected
    /\ UNCHANGED <<fpc, leds, hmask, cccd_led, conn_mask, gatt_mask, ntf_last,
                   n_rx, n_apply, n_ntf, ops>>
    /\ UNCHANGED hostvars /\ UNCHANGED seen

InitFw == FwInit /\ HostInit /\ ops = 0

NextFw ==
    \/ LedMaskWriteApply /\ UNCHANGED hostvars /\ UNCHANGED <<ops, seen>>
    \/ LedMaskWriteNotify /\ UNCHANGED hostvars /\ UNCHANGED <<ops, seen>>
    \/ LedMaskCccdWrite /\ UNCHANGED hostvars /\ UNCHANGED <<ops, seen>>
    \/ BatteryLevelCccdWrite /\ UNCHANGED hostvars /\ UNCHANGED <<ops, seen>>
    \/ RunReturns /\ UNCHANGED hostvars /\ UNCHANGED <<ops, seen>>
    \/ DisconnectedAllOff /\ UNCHANGED hostvars /\ UNCHANGED <<ops, seen>>
    \/ CentralConnect
    \/ CentralWrite
    \/ CentralWriteLedCccd
    \/ CentralWriteBatteryCccd
    \/ CentralDisconnect

\* the firmware with an arbitrary central
SpecFw == InitFw /\ [][NextFw]_vars

\* a step of the firmware's main task
FwStep ==
    /\ \/ LedMaskWriteApply
       \/ LedMaskWriteNotify
       \/ LedMaskCccdWrite
       \/ BatteryLevelCccdWrite
       \/ RunReturns
       \/ DisconnectedAllOff
    /\ UNCHANGED hostvars /\ UNCHANGED <<ops, seen>>

\* the executor runs the main task whenever it is ready: a handler, the return
\* of gatt_server::run and the end of the loop body are not postponed for ever
SpecFwLive == SpecFw /\ WF_vars(FwStep)

(***************************************************************************)
(* The handler of one mask write, for every byte and every state of the    *)
(* four outputs.                                                           *)
(***************************************************************************)
InitMask ==
    /\ HostInit
    /\ ops = 0
    /\ fpc = "serving"
    /\ leds \in AllLeds
    /\ hmask = 0
    /\ flink = "central"
    /\ \E m \in Byte :
          /\ evq = <<GattEvent("LedMaskWrite", m, FALSE)>>
          /\ gatt_mask = m
          /\ conn_mask = <<m>>
    /\ cccd_led = FALSE
    /\ ntf_last = NoNotify
    /\ n_rx = 1
    /\ n_apply = 0
    /\ n_ntf = 0

NextMask ==
    \/ LedMaskWriteApply /\ UNCHANGED hostvars /\ UNCHANGED <<ops, seen>>
    \/ LedMaskWriteNotify /\ UNCHANGED hostvars /\ UNCHANGED <<ops, seen>>

SpecMask == InitMask /\ [][NextMask]_vars

(***************************************************************************)
(* One Scan over every enumeration the adapter can return: the worker is   *)
(* in its dwell, the adapter has seen up to MaxPeris peripherals, each     *)
(* with or without properties, name and signal strength.                   *)
(***************************************************************************)
\* peripherals the adapter enumerates in one scan
MaxPeris == 3

\* rssi: Option<i16>
I16Min == -32768
I16Max == 32767

\* signal strengths: the ends of i16, the sort's default and its neighbour
SortRssi == {I16Min, -1000, DefaultRssi, -40, I16Max}

\* the address of the i-th enumerated peripheral
SortAddrs == <<"AA", "BB", "CC", "DD">>

\* p.properties().await.ok().flatten()
SortProps ==
    {None} \cup
    { Some([local_name |-> n, rssi |-> r]) :
         n \in {None, Some("HelloRust")},
         r \in {None} \cup {Some(v) : v \in SortRssi} }

SortEnums ==
    UNION { { [i \in 1..n |-> [addr |-> SortAddrs[i], props |-> ps[i]]] :
                 ps \in [1..n -> SortProps] } : n \in 0..MaxPeris }

\* ble_worker inside Cmd::Scan, after start_scan, with the adapter's list fixed
InitSort ==
    /\ FwInit
    /\ ops = 0
    /\ cmdq = <<>>
    /\ events = <<>>
    /\ wpc = "dwell"
    /\ cur = Cmd("Scan", "", 0)
    /\ peri = ""
    /\ last_scan = <<>>
    /\ connected = NoConn
    /\ hostlinks = {}
    /\ emitted = <<Log("Scanning (5s)...")>>
    /\ calls = <<Call("start_scan", "", TRUE)>>
    /\ wrx = <<>>
    /\ begun = 1
    /\ done = 0
    /\ ui_devices = <<>>
    /\ ui_connected = FALSE
    /\ ui_leds = <<FALSE, FALSE, FALSE, FALSE>>
    /\ sent = 1
    /\ seen \in SortEnums

\* adapter.peripherals() returns what the adapter has seen
ScanCollectSeen == ScanCollectFrom({seen})

NextSort ==
    \/ ScanCollectSeen
    \/ UiPoll

SpecSort == InitSort /\ [][NextSort]_vars

(***************************************************************************)
(* Properties                                                              *)
(***************************************************************************)
IsLog(e) == e.t = "Log"
IsConnected(e) == e.t = "Connected"

\* the number of events of es that satisfy the test
RECURSIVE CountLogs(_)
CountLogs(es) ==
    IF es = <<>> THEN 0 ELSE (IF IsLog(Head(es)) THEN 1 ELSE 0) + CountLogs(Tail(es))

RECURSIVE CountConnected(_)
CountConnected(es) ==
    IF es = <<>> THEN 0 ELSE (IF IsConnected(Head(es)) THEN 1 ELSE 0) + CountConnected(Tail(es))

\* the four outputs show bits 0-3 of m
Shows(l, m) == \A i \in 0..3 : IsOn(l, i) <=> Bit(m, i) = 1

\* ---------------------------------------------------------------------
\* C1: commands are processed one at a time and in order: the worker takes
\* a command off the channel only at rx.recv() with every earlier command
\* finished, it takes the head of the channel, and every effect of the
\* worker (events, last_scan, the stored pair, stack calls, writes) happens
\* while exactly one command is in progress.
C1_Step ==
    /\ begun' # begun =>
          /\ wpc = "recv"
          /\ begun = done
          /\ begun' = begun + 1
          /\ cmdq # <<>>
          /\ cur' = Head(cmdq)
          /\ cmdq' = Tail(cmdq)
    /\ done' # done => (done' = done + 1 /\ begun' = done')
    /\ (wpc # "init" /\ (\/ Len(events') > Len(events)
                         \/ last_scan' # last_scan
                         \/ connected' # connected
                         \/ Len(calls') > Len(calls)
                         \/ Len(wrx') > Len(wrx)))
          => done = begun' - 1

C1_CommandsInOrder == [][C1_Step]_vars

C1_Witness ==
    /\ begun = 2
    /\ done = 1
    /\ wpc \in {"connect", "discover", "disconnect", "write", "write_sent"}
    /\ cmdq # <<>>

\* ---------------------------------------------------------------------
\* C2: whenever the firmware is back at advertising, that is after boot and
\* after every return of gatt_server::run, all four outputs are off,
\* whatever masks were applied during the connection.
C2_DisconnectAllOff == fpc = "advertising" => AllOff(leds)

C2_Witness ==
    /\ fpc = "advertising"
    /\ n_apply > 0
    /\ hmask % 16 # 0
    /\ AllOff(leds)

\* ---------------------------------------------------------------------
\* C3: once the handler has applied mask m, from any state of the outputs,
\* output i is on iff bit i of m is 1 (i in 0..3), and every byte that agrees
\* with m on bits 0-3 gives these same outputs from every state.
C3_MaskBits ==
    n_apply = 1 =>
       /\ Shows(leds, hmask)
       /\ \A m2 \in Byte : \A l0 \in AllLeds :
             (m2 % 16 = hmask % 16) => apply_mask(l0, m2) = leds

C3_Witness ==
    /\ n_apply = 1
    /\ hmask = 165
    /\ IsOn(leds, 0) /\ ~IsOn(leds, 1) /\ IsOn(leds, 2) /\ ~IsOn(leds, 3)

RECURSIVE CountWrites(_)
CountWrites(q) ==
    IF q = <<>> THEN 0
    ELSE (IF Head(q).k = "LedMaskWrite" THEN 1 ELSE 0) + CountWrites(Tail(q))

\* the command in progress or last finished is a op command
Doing(op) == cur.op = op
\* ... and it is finished
Finished(op) == cur.op = op /\ begun = done

\* the firmware has dispatched every write it was sent and is in no handler
FwQuiet == CountWrites(evq) = 0 /\ fpc # "applied"

\* ---------------------------------------------------------------------
\* C4: a SetMask(m) whose write succeeds has put exactly one write, of the
\* byte m, on the link; the peripheral receives writes only from a SetMask in
\* progress; it handles each write once: apply_mask first, so that the
\* outputs show bits 0-3 of the byte when led_mask_notify is called, then one
\* notify of that same byte; and once the firmware has handled the write of
\* SetMask(m) its outputs show bits 0-3 of m and its last notify carried m.
C4_State ==
    /\ Len(wrx) <= 1
    /\ (Doing("SetMask") /\ calls # <<>> /\ calls[1].fn = "write" /\ calls[1].ok)
          => wrx = <<cur.m>>
    /\ n_apply \in {n_ntf, n_ntf + 1}
    /\ (fpc = "applied") <=> (n_apply = n_ntf + 1)
    /\ n_rx = n_apply + CountWrites(evq)
    /\ fpc = "applied" => Shows(leds, hmask)
    /\ (Doing("SetMask") /\ peri = "AA" /\ wrx = <<cur.m>> /\ FwQuiet)
          => /\ hmask = cur.m
             /\ n_ntf = n_apply
             /\ n_ntf >= 1
             /\ ntf_last.m = cur.m
             /\ ntf_last.to \in {"none", "gui"}
             /\ (fpc = "serving" => Shows(leds, cur.m))

C4_Step ==
    /\ n_rx' # n_rx =>
          /\ n_rx' = n_rx + 1
          /\ wpc = "write"
          /\ Doing("SetMask")
          /\ connected # NoConn
          /\ flink = "gui"
          /\ evq' = Append(evq, GattEvent("LedMaskWrite", cur.m, FALSE))
    /\ n_apply' # n_apply =>
          /\ n_apply' = n_apply + 1
          /\ n_ntf' = n_ntf
          /\ Shows(leds', Head(evq).m)
    /\ n_ntf' # n_ntf =>
          /\ n_ntf' = n_ntf + 1
          /\ n_apply' = n_apply
          /\ fpc = "applied"
          /\ Shows(leds, hmask)
          /\ leds' = leds
          /\ ntf_last'.m = hmask

C4_SetMaskReachesLeds == []C4_State /\ [][C4_Step]_vars

C4_Witness ==
    /\ Finished("SetMask")
    /\ cur.m = 4
    /\ ui_leds = <<FALSE, FALSE, TRUE, FALSE>>
    /\ calls = <<Call("write", "AA", TRUE)>>
    /\ wrx = <<4>>
    /\ flink = "gui"
    /\ fpc = "serving"
    /\ FwQuiet
    /\ n_rx = 1 /\ n_apply = 1 /\ n_ntf = 1
    /\ ~IsOn(leds, 0) /\ ~IsOn(leds, 1) /\ IsOn(leds, 2) /\ ~IsOn(leds, 3)
    /\ ntf_last.m = 4

\* ---------------------------------------------------------------------
\* C5 (as claimed): once the controller's write of m has succeeded and the
\* firmware has handled it, the notification of m has been delivered to the
\* controller.
C5_NotificationDelivered ==
    (Finished("SetMask") /\ calls = <<Call("write", "AA", TRUE)>> /\ FwQuiet)
       => /\ ntf_last.m = cur.m
          /\ ntf_last.to = "gui"
          /\ ntf_last.ok

\* ---------------------------------------------------------------------
\* C6: the step that takes Connect{addr} with addr absent from last_scan
\* finishes the command at once: no stack call, no link opened, last_scan and
\* the stored pair unchanged, no Connected event, and (as claimed) exactly
\* one Log event, resp. (as the code does) exactly two Log events: the
\* "Connect requested" line, then the rejection.
C6_Rejects ==
    /\ begun' = begun + 1
    /\ Head(cmdq).op = "Connect"
    /\ \A i \in 1..Len(last_scan) : last_scan[i].addr # Head(cmdq).addr

C6_NoEffect ==
    /\ done' = begun'
    /\ wpc' = "recv"
    /\ calls' = <<>>
    /\ hostlinks' = hostlinks
    /\ last_scan' = last_scan
    /\ connected' = connected
    /\ UNCHANGED fwvars
    /\ CountConnected(emitted') = 0
    /\ events' = events \o emitted'

C6_OneLogOnly ==
    [][C6_Rejects => (C6_NoEffect /\ Len(emitted') = 1 /\ CountLogs(emitted') = 1)]_vars

C6_RejectedTwoLogs ==
    [][C6_Rejects =>
          /\ C6_NoEffect
          /\ emitted' = <<Log("Connect requested: " \o Head(cmdq).addr),
                          Log("That device wasn't in the last scan list.")>>
          /\ CountLogs(emitted') = 2]_vars

C6_Witness ==
    /\ Finished("Connect")
    /\ calls = <<>>
    /\ last_scan # <<>>
    /\ \A i \in 1..Len(last_scan) : last_scan[i].addr # cur.addr
    /\ Len(emitted) = 2
    /\ emitted[2] = Log("That device wasn't in the last scan list.")

\* ---------------------------------------------------------------------
\* C7 (as claimed): a Connect that ended in the missing-characteristic branch
\* has emitted the "not found" Log and then Connected(false), has called
\* disconnect on the link it opened (closed when the call returned Ok), and
\* leaves the worker with no stored connection.
C7_NoStoredConnection ==
    (Finished("Connect") /\ calls # <<>> /\ calls[Len(calls)].fn = "disconnect")
       => /\ emitted = <<Log("Connect requested: " \o cur.addr),
                         Log("LED characteristic not found on device."),
                         Connected(FALSE)>>
          /\ calls[Len(calls)].addr = cur.addr
          /\ (calls[Len(calls)].ok => cur.addr \notin hostlinks)
          /\ connected = NoConn

\* ---------------------------------------------------------------------
\* C8: the step that takes SetMask(m) with no stored connection finishes the
\* command at once: no stack call, no write, exactly one event, a Log;
\* last_scan, the stored pair, the links and the peripheral unchanged; the
\* command is gone from the channel. A write is put on the link only by a
\* SetMask in progress that found a stored connection, and carries its m.
C8_Step ==
    /\ (begun' = begun + 1 /\ Head(cmdq).op = "SetMask" /\ connected = NoConn) =>
          /\ done' = begun'
          /\ wpc' = "recv"
          /\ calls' = <<>>
          /\ wrx' = <<>>
          /\ emitted' = <<Log("Not connected; ignoring LED write.")>>
          /\ events' = Append(events, Log("Not connected; ignoring LED write."))
          /\ cmdq' = Tail(cmdq)
          /\ UNCHANGED <<last_scan, connected, hostlinks>>
          /\ UNCHANGED fwvars
    /\ (Len(wrx') > Len(wrx) \/ n_rx' > n_rx) =>
          /\ Doing("SetMask")
          /\ begun' = begun
          /\ wpc = "write"
          /\ connected # NoConn
          /\ wrx' = <<cur.m>>

C8_IgnoredNotRetained == [][C8_Step]_vars

\* Scan, Connect, Disconnect, LED1 toggled while the controls still show the
\* connection, Connect: the SetMask(0x01) was ignored, the later Connect has
\* succeeded, and the peripheral has received no write
C8_Witness ==
    /\ Finished("Connect")
    /\ wpc = "recv"
    /\ cmdq = <<>>
    /\ sent = 5 /\ done = 5
    /\ connected = "AA"
    /\ "AA" \in hostlinks
    /\ flink = "gui"
    /\ ui_leds = <<TRUE, FALSE, FALSE, FALSE>>
    /\ \E i, j \in 1..Len(events) :
          /\ i < j
          /\ events[i] = Log("Not connected; ignoring LED write.")
          /\ events[j] = Connected(TRUE)
    /\ n_rx = 0
    /\ evq = <<>>
    /\ AllOff(leds)

\* ---------------------------------------------------------------------
\* C9: a SetMask(m) taken with a connection stored makes one write call, of
\* the one byte m, and emits exactly one event: the Log of the written value
\* when the call returned Ok, the Log of the error when it returned Err; the
\* worker is back at rx.recv(); no step of the command changes the stored
\* pair or last_scan, and it emits no Connected event.
ExpectHex(m) ==
    CASE m = 0 -> "00" [] m = 1 -> "01" [] m = 2 -> "02" [] m = 3 -> "03"
      [] m = 4 -> "04" [] m = 5 -> "05" [] m = 6 -> "06" [] m = 7 -> "07"
      [] m = 8 -> "08" [] m = 9 -> "09" [] m = 10 -> "0a" [] m = 11 -> "0b"
      [] m = 12 -> "0c" [] m = 13 -> "0d" [] m = 14 -> "0e" [] m = 15 -> "0f"
      [] OTHER -> "?"

C9_State ==
    /\ Doing("SetMask") => wpc \in {"recv", "write", "write_sent"}
    /\ (Doing("SetMask") /\ wpc \in {"write", "write_sent"})
          => (emitted = <<>> /\ calls = <<>> /\ connected = peri)
    /\ Doing("SetMask") => (wrx = <<>> \/ wrx = <<cur.m>>)
    /\ (Finished("SetMask") /\ calls # <<>>)
          => /\ Len(calls) = 1
             /\ calls[1].fn = "write"
             /\ calls[1].addr = connected
             /\ calls[1].ok => wrx = <<cur.m>>
             /\ IF calls[1].ok
                THEN emitted = <<Log("Wrote LED mask: 0x" \o ExpectHex(cur.m))>>
                ELSE \E e \in WriteErrors : emitted = <<Log("Write failed: " \o e)>>

C9_Step ==
    Doing("SetMask")' =>
       /\ connected' = connected
       /\ last_scan' = last_scan
       /\ CountConnected(emitted') = 0

C9_WriteKeepsState == []C9_State /\ [][C9_Step]_vars

C9_Witness ==
    /\ Finished("SetMask")
    /\ connected = "AA"
    /\ calls = <<Call("write", "AA", FALSE)>>
    /\ "AA" \in hostlinks
    /\ wrx = <<cur.m>>
    /\ emitted = <<Log("Write failed: Other(\"stack\")")>>
    /\ wpc = "recv"

\* ---------------------------------------------------------------------
\* C10: from the step that takes it, a Disconnect leaves no stored pair and
\* never ends the worker; finished, it has emitted exactly one Connected
\* event, Connected(false), as its last event; with a pair stored it has
\* called disconnect on that pair's link, which is closed when the call
\* returned Ok, and pair and event are as said when it returned Err.
C10_State ==
    /\ Doing("Disconnect") => (connected = NoConn /\ wpc \in {"recv", "disconnect"})
    /\ Finished("Disconnect") =>
          /\ CountConnected(emitted) = 1
          /\ emitted[Len(emitted)] = Connected(FALSE)
          /\ \/ calls = <<>> /\ emitted = <<Connected(FALSE)>>
             \/ /\ Len(calls) = 1
                /\ calls[1].fn = "disconnect"
                /\ calls[1].addr = peri
                /\ calls[1].ok => peri \notin hostlinks
                /\ emitted = <<Log("Disconnecting..."), Connected(FALSE)>>

C10_Step ==
    (begun' = begun + 1 /\ Head(cmdq).op = "Disconnect") =>
       /\ connected' = NoConn
       /\ IF connected # NoConn
          THEN peri' = connected /\ wpc' = "disconnect"
          ELSE done' = begun' /\ emitted' = <<Connected(FALSE)>>

C10_DisconnectClears == []C10_State /\ [][C10_Step]_vars

C10_Witness ==
    /\ Finished("Disconnect")
    /\ connected = NoConn
    /\ calls = <<Call("disconnect", "AA", FALSE)>>
    /\ "AA" \in hostlinks
    /\ emitted = <<Log("Disconnecting..."), Connected(FALSE)>>
    /\ wpc = "recv"

\* ---------------------------------------------------------------------
\* C11: when every enumerated peripheral has a signal strength, the list a
\* Scan stores is a rearrangement of the enumeration in which every named
\* device precedes every unnamed one, within a name group a higher signal
\* strength precedes a lower one, and devices equal on both keys are in
\* enumeration order.
AllRssiPresent(peris) ==
    \A i \in 1..Len(peris) :
       is_some(peris[i].props) /\ is_some(peris[i].props[1].rssi)

Named(d) == d.name # <<>>

\* the place of address a in the enumeration
EnumPos(peris, a) == CHOOSE i \in 1..Len(peris) : peris[i].addr = a

C11_SortedStable ==
    (Finished("Scan") /\ AllRssiPresent(seen)) =>
       /\ Len(last_scan) = Len(seen)
       /\ \A i \in 1..Len(seen) :
             \E j \in 1..Len(last_scan) : last_scan[j] = DeviceInfo(seen[i])
       /\ \A i, j \in 1..Len(last_scan) :
             i < j =>
                LET x == last_scan[i]
                    y == last_scan[j]
                IN  /\ Named(y) => Named(x)
                    /\ (Named(x) <=> Named(y)) => x.rssi[1] >= y.rssi[1]
                    /\ ((Named(x) <=> Named(y)) /\ x.rssi = y.rssi)
                          => EnumPos(seen, x.addr) < EnumPos(seen, y.addr)

\* unnamed AA enumerated first, then named BB and CC of equal strength
C11_Witness ==
    /\ Finished("Scan")
    /\ AllRssiPresent(seen)
    /\ Len(seen) = 3
    /\ ~Named(DeviceInfo(seen[1]))
    /\ last_scan[1].addr = "BB"
    /\ last_scan[2].addr = "CC"
    /\ last_scan[3].addr = "AA"
    /\ last_scan[1].rssi = last_scan[2].rssi

\* ---------------------------------------------------------------------
\* C12 (as claimed): a device without a signal strength counts as the weakest
\* of its name group, so it stands before a device that has a signal strength
\* (any i16) only when the two tie and it was enumerated first: a Scan never
\* moves a device with a signal strength behind one without.
C12_MissingRssiWeakest ==
    Finished("Scan") =>
       \A i, j \in 1..Len(last_scan) :
          LET x == last_scan[i]
              y == last_scan[j]
          IN  (i < j /\ (Named(x) <=> Named(y)) /\ x.rssi = None /\ y.rssi # None)
                 => EnumPos(seen, x.addr) < EnumPos(seen, y.addr)

\* ---------------------------------------------------------------------
\* C13 (as claimed): a finished Scan has replaced last_scan by the sorted
\* enumeration and has emitted exactly one ScanResults event, carrying that
\* list, followed by a Log event as the last event of the command.
IsScanResults(e) == e.t = "ScanResults"

RECURSIVE CountScanResults(_)
CountScanResults(es) ==
    IF es = <<>> THEN 0
    ELSE (IF IsScanResults(Head(es)) THEN 1 ELSE 0) + CountScanResults(Tail(es))

C13_ScanResultsThenCountLog ==
    Finished("Scan") =>
       /\ last_scan = collect_devices(seen)
       /\ CountScanResults(emitted) = 1
       /\ Len(emitted) >= 2
       /\ emitted[Len(emitted) - 1] = ScanResults(last_scan)
       /\ IsLog(emitted[Len(emitted)])

\* C13 (amended): a finished Scan has replaced last_scan by the sorted
\* enumeration the adapter returned and has emitted the Log "Scanning (5s)..."
\* and then exactly one ScanResults event carrying the whole of last_scan;
\* that event is the last of the command, no Log follows it.
C13_ScanResultsLast ==
    Finished("Scan") =>
       /\ last_scan = collect_devices(seen)
       /\ calls = <<Call("start_scan", "", TRUE), Call("peripherals", "", TRUE)>>
       /\ CountScanResults(emitted) = 1
       /\ emitted = <<Log("Scanning (5s)..."), ScanResults(last_scan)>>

\* a second Scan found one device where the first, shown in the UI, found three
C13_Witness ==
    /\ Finished("Scan")
    /\ Len(ui_devices) = 3
    /\ Len(last_scan) = 1
    /\ emitted = <<Log("Scanning (5s)..."), ScanResults(last_scan)>>

\* ---------------------------------------------------------------------
\* C14 (as claimed): the loss of the stored connection's link leaves the
\* host disconnected and tells the UI. Taken at the latest point the worker
\* can learn of the loss: when the write of a SetMask has failed because the
\* link is gone and the command is finished, no connection is stored and the
\* command has emitted Connected(false).
C14_LinkLossResets ==
    (/\ Finished("SetMask")
     /\ peri \notin hostlinks
     /\ calls = <<Call("write", peri, FALSE)>>
     /\ emitted[1] = Log("Write failed: NotConnected")) =>
       /\ connected = NoConn
       /\ \E i \in 1..Len(emitted) : emitted[i] = Connected(FALSE)

\* ---------------------------------------------------------------------
\* C15: the step in which an operation fails with `?` sends no event and
\* leaves the UI's flag alone; from then on the worker stays exited: no
\* command is taken or finished, a command sent is dropped, no stack call is
\* made, the worker's state is frozen and no event is added to the event
\* channel, so that once the UI has drained the events sent before the exit
\* its connected flag never changes again.
C15_Step ==
    /\ (wpc # "exited" /\ wpc' = "exited") =>
          /\ events' = events
          /\ ui_connected' = ui_connected
          /\ begun' = begun /\ done' = done
    /\ wpc = "exited" =>
          /\ wpc' = "exited"
          /\ begun' = begun /\ done' = done
          /\ cmdq' = cmdq
          /\ calls' = calls /\ wrx' = wrx /\ emitted' = emitted
          /\ connected' = connected /\ last_scan' = last_scan
          /\ events' = events \/ events' = <<>>
          /\ events = <<>> => ui_connected' = ui_connected

C15_ExitIsSilentAndFinal == [][C15_Step]_vars

\* the worker died with a connection stored and shown; a command sent since
\* was dropped
C15_Witness ==
    /\ wpc = "exited"
    /\ connected # NoConn
    /\ ui_connected
    /\ events = <<>>
    /\ cmdq = <<>>
    /\ sent > begun

\* ---------------------------------------------------------------------
\* C16 (as claimed): a Disconnect waiting in the channel behind a Connect is
\* executed once the connect attempt has resolved, whether it succeeded or
\* failed: the worker is never stopped for good with that Disconnect still
\* waiting.
C16_DisconnectAfterConnect ==
    (Doing("Connect") /\ cmdq # <<>> /\ Head(cmdq).op = "Disconnect")
       => wpc # "exited"

\* ---------------------------------------------------------------------
\* C17: the step in which led_mask_notify fails is one notify attempt for
\* the one apply_mask before it and changes nothing else: the outputs still
\* show the mask just applied, the stored value of the characteristic and the
\* link are as they were, the pending events are kept and the handler returns
\* to the event loop. Notify attempts never outnumber the masks applied.
C17_State ==
    /\ n_ntf <= n_apply
    /\ n_apply <= n_ntf + 1
    /\ fpc = "applied" <=> n_apply = n_ntf + 1

C17_Step ==
    (fpc = "applied" /\ fpc' # "applied" /\ ~NotifyOk) =>
       /\ fpc' = "serving"
       /\ n_ntf' = n_ntf + 1
       /\ n_apply' = n_apply
       /\ ntf_last' = [m |-> hmask, ok |-> FALSE, to |-> flink]
       /\ leds' = leds
       /\ Shows(leds', hmask)
       /\ gatt_mask' = gatt_mask
       /\ flink' = flink
       /\ evq' = evq

C17_NotifyFailureIgnored == []C17_State /\ [][C17_Step]_vars

\* one connection, two writes: the notify of the first failed, the second
\* has been applied
C17_Witness ==
    /\ ops = 3
    /\ n_rx = 2
    /\ flink = "central"
    /\ n_apply = 2
    /\ n_ntf = 1
    /\ ~ntf_last.ok
    /\ ntf_last.m # hmask
    /\ Shows(leds, hmask)

\* ---------------------------------------------------------------------
\* C18: main is always at one of the positions of its loop and advertises
\* only while no link is live; a link is accepted only out of advertising
\* and a live link is never replaced by another; main is never stuck: away
\* from its two waiting points (advertising; serving a live link with no
\* event pending) it always has a step to take; and whenever the link has
\* ended, main eventually advertises again.
FwWaiting == fpc = "advertising" \/ (fpc = "serving" /\ evq = <<>> /\ flink # "none")

C18_State ==
    /\ fpc \in {"advertising", "serving", "applied", "run_returned"}
    /\ fpc = "advertising" => flink = "none"
    /\ ~FwWaiting => ENABLED FwStep

C18_Step ==
    /\ (flink = "none" /\ flink' # "none") => (fpc = "advertising" /\ fpc' = "serving")
    /\ flink # "none" => flink' \in {flink, "none"}

C18_Live == (flink = "none") ~> (fpc = "advertising")

C18_CyclesForever == []C18_State /\ [][C18_Step]_vars /\ C18_Live

\* a second connection: the mask 5 of the first was shown and switched off
C18_Witness ==
    /\ fpc = "serving"
    /\ flink = "central"
    /\ evq = <<>>
    /\ ops = 3
    /\ n_apply = 1
    /\ gatt_mask = 5
    /\ AllOff(leds)

\* ---------------------------------------------------------------------
\* C19: neither the arrival of a CCCD write for led_mask or battery_level
\* nor the handler's dispatch of the event changes the four outputs, the
\* link, the stored mask or the handler's mask, and neither sends a
\* notification; the dispatch leaves main in the event loop.
IsCccdWrite(e) == e.k \in {"LedMaskCccdWrite", "BatteryLevelCccdWrite"}

CccdFrame ==
    /\ leds' = leds
    /\ flink' = flink
    /\ gatt_mask' = gatt_mask
    /\ hmask' = hmask
    /\ n_apply' = n_apply
    /\ n_ntf' = n_ntf
    /\ ntf_last' = ntf_last
    /\ fpc' = fpc

C19_Step ==
    /\ (evq # <<>> /\ IsCccdWrite(Head(evq)) /\ evq' = Tail(evq)) =>
          (fpc = "serving" /\ cccd_led' = cccd_led /\ CccdFrame)
    /\ (Len(evq') = Len(evq) + 1 /\ IsCccdWrite(evq'[Len(evq')])) => CccdFrame

C19_CccdWriteOnlyLogged == [][C19_Step]_vars

\* mask 5 written and shown before the central subscribed; the subscription
\* has been dispatched
C19_Witness ==
    /\ fpc = "serving"
    /\ flink = "central"
    /\ evq = <<>>
    /\ cccd_led
    /\ n_ntf = 1
    /\ ~ntf_last.ok
    /\ gatt_mask = 5
    /\ Shows(leds, 5)

\* ---------------------------------------------------------------------
\* C20 (as claimed): with the command channel empty, the worker waiting at
\* rx.recv() and the event channel drained by the UI, the UI's connected
\* flag is set exactly when the worker holds a stored pair.
C20_UiFlagMatchesStored ==
    (cmdq = <<>> /\ wpc = "recv" /\ events = <<>>) =>
       (ui_connected <=> connected # NoConn)

\* ---------------------------------------------------------------------
\* C21 (as claimed): the host holds no open link but the stored one; in
\* particular, when a Connect replaces the stored pair by another, the link
\* of the pair it replaces does not stay open.
C21_Step ==
    (connected # NoConn /\ connected' # NoConn /\ connected' # connected)
       => connected \notin hostlinks'

C21_ReplacedLinkClosed == [][C21_Step]_vars

\* ---------------------------------------------------------------------
\* C22: whenever main waits, the four outputs are determined by the current
\* connection alone: all off while it advertises; while it awaits the next
\* GATT event, all off if no mask has been written over this connection and
\* otherwise showing bits 0-3 of the last mask written over it.
C22_ShowsLastMask ==
    /\ fpc = "advertising" => AllOff(leds)
    /\ (fpc = "serving" /\ evq = <<>>) =>
          IF conn_mask = <<>> THEN AllOff(leds) ELSE Shows(leds, conn_mask[1])

\* reconnected after a connection that wrote mask 5: nothing written yet over
\* the new connection, nothing shown
C22_Witness ==
    /\ fpc = "serving"
    /\ evq = <<>>
    /\ flink = "central"
    /\ conn_mask = <<>>
    /\ gatt_mask = 5
    /\ n_apply = 1
    /\ AllOff(leds)

====
